---- MODULE Spec2Model ----
(***************************************************************************)
(* Model of TranslationValidator (src/src/validator.ts): the placeholder   *)
(* check, the batch validator and the PO file orchestrator.                *)
(*                                                                         *)
(* A text is a sequence of pieces.  A piece is one character, or a run of   *)
(* characters that holds no '%' and does not begin with one of s, d, f, g, *)
(* so that a placeholder is always a "%" piece followed by a letter piece. *)
(* A JavaScript value that may be undefined is a tagged record:            *)
(* [t |-> "undefined"], [t |-> "string", v |-> text] or                    *)
(* [t |-> "array", v |-> sequence].                                        *)
(***************************************************************************)
EXTENDS Integers, Sequences, FiniteSets, TLC

VARIABLES
    pc,                  \* position of the validatePoFile call
    poItems,             \* poData.items: the parsed PO file
    readable,            \* whether readFileSync / po.parse succeed
    batchSize,           \* the batchSize argument
    validTranslations,   \* kept entries {msgid, msgstr}
    allIssues,           \* the accumulated issue list
    aiValidationSuccessful,
    batches,             \* the batches built by the partitioning loop
    i,                   \* loop variable of the partitioning loop
    index,               \* number of batches whose model call has started
    batchIssues,         \* issues of the current batch still to be merged
    outstanding,         \* model calls started and not yet completed
    technicalIssues,     \* allIssues as logged at the end of the technical pass
    lastError,           \* message of the error the latest model call ran into
    confirmedAll,        \* every response so far reported each entry once, has_issues false
    cc_msgid,            \* argument of a direct checkPlaceholderConsistency call
    cc_msgstr,           \* argument of a direct checkPlaceholderConsistency call
    cc_result            \* whether it has been called, and the problems it returned

vars == <<pc, poItems, readable, batchSize, validTranslations, allIssues,
          aiValidationSuccessful, batches, i, index, batchIssues, outstanding,
          technicalIssues, lastError, confirmedAll, cc_msgid, cc_msgstr, cc_result>>

-----------------------------------------------------------------------------
(* Bounds *)

MaxLen == 4          \* longest msgid / msgstr given to the placeholder check
MaxEntries == 2      \* most items in a PO file
MaxValidations == 2  \* most entries in the model's "translations" array

\* the batches the heap has room for: more than any file of MaxEntries entries
\* needs when batchSize >= 1
MaxBatches == MaxEntries + 1

-----------------------------------------------------------------------------
(* Texts *)

Alphabet == {"%", "s", "d"}

PlaceholderLetters == {"s", "d", "f", "g"}

Texts(n) == UNION {[1..k -> Alphabet] : k \in 0..n}

Min(a, b) == IF a < b THEN a ELSE b
Max(a, b) == IF a > b THEN a ELSE b

\* UTF-16 code unit of the letters that matter to Array.prototype.sort
CodeUnit(c) ==
    CASE c = "%" -> 37
      [] c = "d" -> 100
      [] c = "f" -> 102
      [] c = "g" -> 103
      [] c = "s" -> 115
      [] OTHER -> 120

RECURSIVE join(_, _)
\* Array.prototype.join: the texts of arr with sep between them
join(arr, sep) ==
    IF arr = <<>> THEN <<>>
    ELSE IF Len(arr) = 1 THEN arr[1]
    ELSE arr[1] \o sep \o join(Tail(arr), sep)

\* Array.prototype.includes
includes(arr, x) == \E k \in 1..Len(arr) : arr[k] = x

-----------------------------------------------------------------------------
(* extractPlaceholders and checkPlaceholderConsistency *)

RECURSIVE matchFrom(_, _)
\* text.match(/%[sdfg]/g) scanning from position k, left to right
matchFrom(text, k) ==
    IF k >= Len(text) THEN <<>>
    ELSE IF text[k] = "%" /\ text[k + 1] \in PlaceholderLetters
         THEN <<SubSeq(text, k, k + 1)>> \o matchFrom(text, k + 2)
         ELSE matchFrom(text, k + 1)

extractPlaceholders(text) == matchFrom(text, 1)

\* default sort order on two-character tokens: by code units, left to right
TokenLess(a, b) ==
    \/ CodeUnit(a[1]) < CodeUnit(b[1])
    \/ CodeUnit(a[1]) = CodeUnit(b[1]) /\ CodeUnit(a[2]) < CodeUnit(b[2])

RECURSIVE insert(_, _)
insert(sorted, x) ==
    IF sorted = <<>> THEN <<x>>
    ELSE IF TokenLess(x, Head(sorted)) THEN <<x>> \o sorted
    ELSE <<Head(sorted)>> \o insert(Tail(sorted), x)

\* a sort that leaves the array in match order
sort_keepsOrder(arr) == arr

RECURSIVE sort(_)
\* Array.prototype.sort() without a comparator
sort(arr) == IF arr = <<>> THEN <<>> ELSE insert(sort(Tail(arr)), Head(arr))

\* JSON.stringify of an array of tokens
stringify(arr) ==
    <<"[">> \o join([k \in 1..Len(arr) |-> <<"\"">> \o arr[k] \o <<"\"">>], <<",">>) \o <<"]">>

MissingPrefix == <<"Missing placeholder(s): ">>

checkPlaceholderConsistency(msgid, msgstr) ==
    LET originalPlaceholders == sort(extractPlaceholders(msgid))
        translatedPlaceholders == sort(extractPlaceholders(msgstr))
        missing == SelectSeq(originalPlaceholders,
                             LAMBDA p : ~includes(translatedPlaceholders, p))
    IN  IF stringify(originalPlaceholders) # stringify(translatedPlaceholders)
        THEN << [type |-> "placeholder_mismatch",
                 description |-> MissingPrefix \o join(missing, <<",", " ">>)] >>
        ELSE <<>>

-----------------------------------------------------------------------------
(* JavaScript values of the model's JSON response *)

Undefined == [t |-> "undefined"]
Str(text) == [t |-> "string", v |-> text]
Arr(seq) == [t |-> "array", v |-> seq]

\* JavaScript truthiness of an optional string
truthy(x) == x.t = "string" /\ x.v # <<>>

GenericFix == Str(<<"Ensure all placeholders are present in translation">>)

\* Error messages, as sequences of the phrases error.message?.includes looks for
NotJsonMessage == <<"Response is ", "not", " in JSON format">>
SyntaxErrorMessage == <<"Unexpected token">>
TypeErrorMessage == <<"Cannot read properties of undefined">>
ModelNotFoundMessage == <<"model", " 'llama2' ", "not found">>
NetworkMessage == <<"fetch failed">>
HttpNotFoundMessage == <<"404 ", "not found">>

RejectMessages == {ModelNotFoundMessage, NetworkMessage, HttpNotFoundMessage}

\* one element of result.translations
NullValidation == [isNull |-> TRUE]
Validation(idx, has, iss, fix) ==
    [isNull |-> FALSE, index |-> idx, has_issues |-> has, issues |-> iss, suggested_fix |-> fix]

AiFix == Str(<<"Sveiki">>)
AiIssues == Arr(<< <<"Wrong word">>, <<"Too informal">> >>)

\* the model's completion: how the generated text begins, and what JSON.parse makes of it
Completion(chars, ok, translations) ==
    [chars |-> chars, parse |-> [ok |-> ok, translations |-> translations]]

\* this.model.generate: a rejected promise or a completion
Rejected(message) == [rejected |-> TRUE, message |-> message]
Generated(completion) == [rejected |-> FALSE, text |-> completion]

-----------------------------------------------------------------------------
(* validateBatch *)

RECURSIVE trimStart(_)
\* the leading part of String.prototype.trim
trimStart(chars) ==
    IF chars # <<>> /\ Head(chars) = " " THEN trimStart(Tail(chars)) ELSE chars

startsWith(chars, c) == chars # <<>> /\ Head(chars) = c

RECURSIVE dedup(_)
\* [...new Set(problems.map(p => JSON.stringify(p)))].map(p => JSON.parse(p)):
\* the first occurrence of each problem, in order
dedup(problems) ==
    IF problems = <<>> THEN <<>>
    ELSE LET init == dedup(SubSeq(problems, 1, Len(problems) - 1))
             last == problems[Len(problems)]
         IN  IF includes(init, last) THEN init ELSE Append(init, last)

\* translations[validation.index - 1] is a real entry of the batch
resolves(translations, validation) ==
    /\ ~validation.isNull
    /\ validation.index - 1 >= 0
    /\ validation.index - 1 < Len(translations)

\* the condition under which a linguistic_review problem is added
isWrong(validation, translation) ==
    /\ validation.has_issues
    /\ truthy(validation.suggested_fix)
    /\ validation.suggested_fix # Str(translation.msgstr)

NoError == <<>>

RECURSIVE walk(_, _, _, _)
\* the for-of loop over result.translations from its k-th element on; issues is
\* the array built so far.  Ends with the array and the error thrown, if any.
walk(translations, validations, k, issues) ==
    IF k > Len(validations) THEN [issues |-> issues, error |-> NoError]
    ELSE
      LET validation == validations[k] IN
      IF ~resolves(translations, validation)
      THEN walk(translations, validations, k + 1, issues)
      ELSE
        LET translation == translations[validation.index]
            placeholderProblems ==
                checkPlaceholderConsistency(translation.msgid, translation.msgstr)
        IN
        IF isWrong(validation, translation) /\ validation.issues.t # "array"
        THEN [issues |-> issues, error |-> TypeErrorMessage]
        ELSE
          LET problems ==
                  IF isWrong(validation, translation)
                  THEN Append(placeholderProblems,
                              [type |-> "linguistic_review",
                               description |-> join(validation.issues.v, <<"\n">>)])
                  ELSE placeholderProblems
              pushed ==
                  IF Len(problems) > 0
                  THEN Append(issues, [msgid |-> translation.msgid,
                                       msgstr |-> translation.msgstr,
                                       problems |-> dedup(problems),
                                       suggestedFix |-> validation.suggested_fix])
                  ELSE issues
          IN  walk(translations, validations, k + 1, pushed)

\* the body of the inner try block: the issues pushed and the error thrown, if any
tryGenerate(translations, response) ==
    IF response.rejected
    THEN [issues |-> <<>>, error |-> response.message]
    ELSE LET responseText == trimStart(response.text.chars) IN
         IF ~startsWith(responseText, "{")
         THEN [issues |-> <<>>, error |-> NotJsonMessage]
         ELSE IF ~response.text.parse.ok
         THEN [issues |-> <<>>, error |-> SyntaxErrorMessage]
         ELSE IF response.text.parse.translations.t # "array"
         THEN [issues |-> <<>>, error |-> TypeErrorMessage]
         ELSE walk(translations, response.text.parse.translations.v, 1, <<>>)

\* a catch clause that rethrows whatever it catches
isFatal_always(message) == TRUE

\* a catch clause that swallows whatever it catches
isFatal_never(message) == FALSE

\* the test of the inner catch clause
isFatal(message) == includes(message, "model") /\ includes(message, "not found")

\* validateBatch: thrown tells whether the call rejects; otherwise issues is returned
validateBatch(translations, response) ==
    LET tried == tryGenerate(translations, response) IN
    IF tried.error # NoError /\ isFatal(tried.error)
    THEN [thrown |-> TRUE, issues |-> <<>>, error |-> tried.error]
    ELSE [thrown |-> FALSE, issues |-> tried.issues, error |-> tried.error]

-----------------------------------------------------------------------------
(* validatePoFile: inputs *)

\* a pofile item: msgid and the msgstr array
PoItem(msgid, msgstr0) == [msgid |-> msgid, msgstr |-> <<msgstr0>>]

MissingPlaceholderItem == PoItem(<<"Hi ", "%", "s">>, <<"Sveiks">>)
WellFormedItem == PoItem(<<"Hello">>, <<"Sveika">>)
UntranslatedItem == PoItem(<<"You ", "%", "d">>, <<>>)

Items == {MissingPlaceholderItem, WellFormedItem, UntranslatedItem}

PoFiles == UNION {[1..n -> Items] : n \in 0..MaxEntries}

BatchSizes == {-1, 0, 1, 2}

\* the entries the model may put in "translations": null, positions outside the
\* batch, and for positions 1 and 2 the shapes the walk tells apart
Validations ==
    { NullValidation,
      Validation(0, TRUE, AiIssues, AiFix),
      Validation(1, FALSE, Arr(<<>>), Str(<<>>)),
      Validation(1, TRUE, AiIssues, AiFix),
      Validation(1, TRUE, AiIssues, GenericFix),
      Validation(1, TRUE, AiIssues, Str(WellFormedItem.msgstr[1])),
      Validation(1, TRUE, Undefined, AiFix),
      Validation(2, FALSE, Arr(<<>>), Str(<<>>)),
      Validation(2, TRUE, AiIssues, AiFix) }

TranslationArrays == UNION {[1..n -> Validations] : n \in 0..MaxValidations}

Completions ==
    { Completion(<<"Sorry">>, FALSE, Undefined),
      Completion(<<"{">>, FALSE, Undefined),
      Completion(<<"{">>, TRUE, Undefined),
      Completion(<<" ", "{">>, TRUE, Arr(<<>>)) }
    \cup {Completion(<<"{">>, TRUE, Arr(a)) : a \in TranslationArrays}

Responses == {Rejected(m) : m \in RejectMessages} \cup {Generated(c) : c \in Completions}

NotCalled == [called |-> FALSE, problems |-> <<>>]

-----------------------------------------------------------------------------
(* validatePoFile: helpers *)

\* a filter that keeps every item
kept_all(item) == TRUE

\* the filter predicate item => item.msgstr[0]
kept(item) == Len(item.msgstr) >= 1 /\ item.msgstr[1] # <<>>

\* poData.items.filter(...).map(item => ({msgid, msgstr: item.msgstr[0]}))
filterMap(items) ==
    LET keptItems == SelectSeq(items, kept)
    IN  [k \in 1..Len(keptItems) |->
            [msgid |-> keptItems[k].msgid, msgstr |-> keptItems[k].msgstr[1]]]

RECURSIVE technicalPass(_)
\* the technical validation loop over validTranslations
technicalPass(translations) ==
    IF translations = <<>> THEN <<>>
    ELSE LET translation == Head(translations)
             technicalProblems ==
                 checkPlaceholderConsistency(translation.msgid, translation.msgstr)
         IN  (IF Len(technicalProblems) > 0
              THEN << [msgid |-> translation.msgid,
                       msgstr |-> translation.msgstr,
                       problems |-> technicalProblems,
                       suggestedFix |-> GenericFix] >>
              ELSE <<>>) \o technicalPass(Tail(translations))

\* a relative index of Array.prototype.slice
relative(k, len) == IF k < 0 THEN Max(len + k, 0) ELSE Min(k, len)

\* a slice that takes one element too many
slice_offByOne(arr, start, end) ==
    SubSeq(arr, relative(start, Len(arr)) + 1, relative(end + 1, Len(arr)))

\* Array.prototype.slice(start, end)
slice(arr, start, end) ==
    SubSeq(arr, relative(start, Len(arr)) + 1, relative(end, Len(arr)))

sameEntry(issue, batchIssue) ==
    issue.msgid = batchIssue.msgid /\ issue.msgstr = batchIssue.msgstr

\* a merge that never looks the issue up
merge_alwaysPush(issues, batchIssue) == Append(issues, batchIssue)

\* one iteration of the merge loop: allIssues.find, then extend or push
merge(issues, batchIssue) ==
    IF \E k \in 1..Len(issues) : sameEntry(issues[k], batchIssue)
    THEN LET k == CHOOSE k \in 1..Len(issues) :
                      /\ sameEntry(issues[k], batchIssue)
                      /\ \A j \in 1..(k - 1) : ~sameEntry(issues[j], batchIssue)
         IN  [issues EXCEPT
                 ![k].problems = @ \o batchIssue.problems,
                 ![k].suggestedFix =
                     IF batchIssue.suggestedFix # GenericFix THEN batchIssue.suggestedFix ELSE @]
    ELSE Append(issues, batchIssue)

\* the response lists every entry of the batch exactly once, each with has_issues false
confirmsAll(batch, response) ==
    /\ ~response.rejected
    /\ startsWith(trimStart(response.text.chars), "{")
    /\ response.text.parse.ok
    /\ response.text.parse.translations.t = "array"
    /\ LET vs == response.text.parse.translations.v IN
       /\ \A k \in 1..Len(vs) : ~vs[k].isNull /\ ~vs[k].has_issues
       /\ \A n \in 1..Len(batch) :
              Cardinality({k \in 1..Len(vs) : vs[k].index = n}) = 1

-----------------------------------------------------------------------------
(* validatePoFile: steps *)

idle == cc_msgid = <<>> /\ cc_msgstr = <<>> /\ cc_result = NotCalled

Init ==
    /\ pc = "load"
    /\ poItems \in PoFiles
    /\ readable \in BOOLEAN
    /\ batchSize \in BatchSizes
    /\ validTranslations = <<>>
    /\ allIssues = <<>>
    /\ aiValidationSuccessful = FALSE
    /\ batches = <<>>
    /\ i = 0
    /\ index = 0
    /\ batchIssues = <<>>
    /\ outstanding = 0
    /\ technicalIssues = <<>>
    /\ lastError = NoError
    /\ confirmedAll = TRUE
    /\ idle

\* readFileSync or po.parse throws: the outer catch logs and rethrows
LoadFails ==
    /\ pc = "load"
    /\ ~readable
    /\ pc' = "threw"
    /\ UNCHANGED <<poItems, readable, batchSize, validTranslations, allIssues,
                   aiValidationSuccessful, batches, i, index, batchIssues, outstanding,
                   technicalIssues, lastError, confirmedAll, cc_msgid, cc_msgstr, cc_result>>

\* load, filter and the technical pass
TechnicalValidation ==
    /\ pc = "load"
    /\ readable
    /\ validTranslations' = filterMap(poItems)
    /\ allIssues' = technicalPass(validTranslations')
    /\ technicalIssues' = allIssues'
    /\ batches' = <<>>
    /\ i' = 0
    /\ pc' = "partition"
    /\ UNCHANGED <<poItems, readable, batchSize, aiValidationSuccessful, index, batchIssues,
                   outstanding, lastError, confirmedAll, cc_msgid, cc_msgstr, cc_result>>

\* one iteration of the partitioning loop
PartitionStep ==
    /\ pc = "partition"
    /\ i < Len(validTranslations)
    /\ Len(batches) < MaxBatches
    /\ batches' = Append(batches, slice(validTranslations, i, i + batchSize))
    /\ i' = i + batchSize
    /\ UNCHANGED <<pc, poItems, readable, batchSize, validTranslations, allIssues,
                   aiValidationSuccessful, index, batchIssues, outstanding,
                   technicalIssues, lastError, confirmedAll, cc_msgid, cc_msgstr, cc_result>>

\* the partitioning loop has filled the heap with batches and wants another
\* iteration: the allocation fails and the process is aborted
HeapExhausted ==
    /\ pc = "partition"
    /\ i < Len(validTranslations)
    /\ ~(Len(batches) < MaxBatches)
    /\ pc' = "aborted"
    /\ UNCHANGED <<poItems, readable, batchSize, validTranslations, allIssues,
                   aiValidationSuccessful, batches, i, index, batchIssues, outstanding,
                   technicalIssues, lastError, confirmedAll, cc_msgid, cc_msgstr, cc_result>>

\* the partitioning loop ends
PartitionDone ==
    /\ pc = "partition"
    /\ ~(i < Len(validTranslations))
    /\ pc' = "batch"
    /\ index' = 0
    /\ UNCHANGED <<poItems, readable, batchSize, validTranslations, allIssues,
                   aiValidationSuccessful, batches, i, batchIssues, outstanding,
                   technicalIssues, lastError, confirmedAll, cc_msgid, cc_msgstr, cc_result>>

\* the batch loop takes the next batch and validateBatch calls this.model.generate
CallModel ==
    /\ pc = "batch"
    /\ index < Len(batches)
    /\ index' = index + 1
    /\ outstanding' = outstanding + 1
    /\ pc' = "await"
    /\ UNCHANGED <<poItems, readable, batchSize, validTranslations, allIssues,
                   aiValidationSuccessful, batches, i, batchIssues,
                   technicalIssues, lastError, confirmedAll, cc_msgid, cc_msgstr, cc_result>>

\* the model call settles and validateBatch runs to its end
ModelResponds ==
    /\ pc = "await"
    /\ \E response \in Responses :
         LET call == validateBatch(batches[index], response) IN
         /\ outstanding' = outstanding - 1
         /\ lastError' = call.error
         /\ confirmedAll' = (confirmedAll /\ confirmsAll(batches[index], response))
         /\ IF call.thrown
            THEN /\ aiValidationSuccessful' = FALSE
                 /\ pc' = "report"
                 /\ UNCHANGED batchIssues
            ELSE /\ batchIssues' = call.issues
                 /\ pc' = "merge"
                 /\ UNCHANGED aiValidationSuccessful
    /\ UNCHANGED <<poItems, readable, batchSize, validTranslations, allIssues,
                   batches, i, index, technicalIssues, cc_msgid, cc_msgstr, cc_result>>

\* one iteration of the merge loop
MergeStep ==
    /\ pc = "merge"
    /\ batchIssues # <<>>
    /\ allIssues' = merge(allIssues, Head(batchIssues))
    /\ batchIssues' = Tail(batchIssues)
    /\ UNCHANGED <<pc, poItems, readable, batchSize, validTranslations,
                   aiValidationSuccessful, batches, i, index, outstanding,
                   technicalIssues, lastError, confirmedAll, cc_msgid, cc_msgstr, cc_result>>

\* the merge loop ends; the error caught inside validateBatch is out of scope
MergeDone ==
    /\ pc = "merge"
    /\ batchIssues = <<>>
    /\ pc' = "batch"
    /\ lastError' = NoError
    /\ UNCHANGED <<poItems, readable, batchSize, validTranslations, allIssues,
                   aiValidationSuccessful, batches, i, index, batchIssues, outstanding,
                   technicalIssues, confirmedAll, cc_msgid, cc_msgstr, cc_result>>

\* the batch loop ends
BatchesDone ==
    /\ pc = "batch"
    /\ index = Len(batches)
    /\ aiValidationSuccessful' = TRUE
    /\ pc' = "report"
    /\ UNCHANGED <<poItems, readable, batchSize, validTranslations, allIssues,
                   batches, i, index, batchIssues, outstanding,
                   technicalIssues, lastError, confirmedAll, cc_msgid, cc_msgstr, cc_result>>

\* the summary is printed and allIssues is returned
Report ==
    /\ pc = "report"
    /\ pc' = "done"
    /\ UNCHANGED <<poItems, readable, batchSize, validTranslations, allIssues,
                   aiValidationSuccessful, batches, i, index, batchIssues, outstanding,
                   technicalIssues, lastError, confirmedAll, cc_msgid, cc_msgstr, cc_result>>

Next ==
    \/ LoadFails
    \/ TechnicalValidation
    \/ PartitionStep
    \/ HeapExhausted
    \/ PartitionDone
    \/ CallModel
    \/ ModelResponds
    \/ MergeStep
    \/ MergeDone
    \/ BatchesDone
    \/ Report

Spec == Init /\ [][Next]_vars

\* every step of validatePoFile is eventually taken: the event loop runs the
\* continuation of a settled await, and a model call settles
FairSpec == Spec /\ WF_vars(Next)

-----------------------------------------------------------------------------
(* checkPlaceholderConsistency called on its own *)

CheckInit ==
    /\ pc = "idle"
    /\ poItems = <<>>
    /\ readable = TRUE
    /\ batchSize = 10
    /\ validTranslations = <<>>
    /\ allIssues = <<>>
    /\ aiValidationSuccessful = FALSE
    /\ batches = <<>>
    /\ i = 0
    /\ index = 0
    /\ batchIssues = <<>>
    /\ outstanding = 0
    /\ technicalIssues = <<>>
    /\ lastError = NoError
    /\ confirmedAll = TRUE
    /\ cc_msgid \in Texts(MaxLen)
    /\ cc_msgstr \in Texts(MaxLen)
    /\ cc_result = NotCalled

CheckCall ==
    /\ ~cc_result.called
    /\ cc_result' = [called |-> TRUE,
                     problems |-> checkPlaceholderConsistency(cc_msgid, cc_msgstr)]
    /\ UNCHANGED <<pc, poItems, readable, batchSize, validTranslations, allIssues,
                   aiValidationSuccessful, batches, i, index, batchIssues, outstanding,
                   technicalIssues, lastError, confirmedAll, cc_msgid, cc_msgstr>>

CheckNext == CheckCall

CheckSpec == CheckInit /\ [][CheckNext]_vars

-----------------------------------------------------------------------------
(* Properties *)

\* occurrences of the placeholder %c in text
Count(c, text) ==
    Cardinality({k \in 1..(Len(text) - 1) : text[k] = "%" /\ text[k + 1] = c})

\* C1: checkPlaceholderConsistency returns no problem exactly when msgid and msgstr
\* hold the same placeholders with the same counts; otherwise it returns one
\* placeholder_mismatch problem whose description lists the placeholders of msgid
\* that do not occur at all in msgstr.
C1_PlaceholderCheck ==
    cc_result.called =>
        LET problems == cc_result.problems IN
        IF \A c \in PlaceholderLetters : Count(c, cc_msgid) = Count(c, cc_msgstr)
        THEN problems = <<>>
        ELSE /\ Len(problems) = 1
             /\ problems[1].type = "placeholder_mismatch"
             /\ SubSeq(problems[1].description, 1, Len(MissingPrefix)) = MissingPrefix
             /\ \A c \in PlaceholderLetters :
                    Count(c, problems[1].description) =
                        IF Count(c, cc_msgstr) = 0 THEN Count(c, cc_msgid) ELSE 0

\* a mismatch between two placeholders in msgid and a different one in msgstr
C1_Witness ==
    /\ cc_result.called
    /\ Len(cc_result.problems) = 1
    /\ Count("s", cc_msgid) = 1
    /\ Count("d", cc_msgid) = 1
    /\ Count("d", cc_msgstr) = 2

\* every issue of the technical pass is still in the accumulated list, in its
\* place, for the same entry and with its problems first
TechnicalIssuesKept ==
    /\ Len(technicalIssues) <= Len(allIssues)
    /\ \A k \in 1..Len(technicalIssues) :
          /\ sameEntry(allIssues[k], technicalIssues[k])
          /\ Len(technicalIssues[k].problems) <= Len(allIssues[k].problems)
          /\ SubSeq(allIssues[k].problems, 1, Len(technicalIssues[k].problems))
                 = technicalIssues[k].problems

RECURSIVE concat(_)
concat(seqs) == IF seqs = <<>> THEN <<>> ELSE Head(seqs) \o concat(Tail(seqs))

\* C2: no issue, no kept entry and no entry of a batch has an empty translation,
\* and every issue is for a translated entry of the file.
C2_UntranslatedSkipped ==
    /\ \A k \in 1..Len(validTranslations) : validTranslations[k].msgstr # <<>>
    /\ \A b \in 1..Len(batches) : \A k \in 1..Len(batches[b]) : batches[b][k].msgstr # <<>>
    /\ \A k \in 1..Len(batchIssues) : batchIssues[k].msgstr # <<>>
    /\ \A k \in 1..Len(allIssues) :
          /\ allIssues[k].msgstr # <<>>
          /\ \E n \in 1..Len(poItems) :
                /\ poItems[n].msgid = allIssues[k].msgid
                /\ poItems[n].msgstr[1] = allIssues[k].msgstr

\* a returned list with issues, for a file that holds an untranslated entry
\* whose msgid has a placeholder
C2_Witness ==
    /\ pc = "done"
    /\ index >= 1
    /\ allIssues # <<>>
    /\ \E n \in 1..Len(poItems) : poItems[n] = UntranslatedItem

\* the kept entries whose placeholders do not match
mismatching == {k \in 1..Len(validTranslations) :
                   checkPlaceholderConsistency(validTranslations[k].msgid,
                                               validTranslations[k].msgstr) # <<>>}

\* C3: with one mismatching translated entry and a model that reports no
\* linguistic issue for any entry, the returned list holds one issue, for that
\* entry, with one placeholder_mismatch problem.
C3_OneIssueOneProblem ==
    (pc = "done" /\ confirmedAll /\ Cardinality(mismatching) = 1) =>
        /\ Len(allIssues) = 1
        /\ \A k \in mismatching : sameEntry(allIssues[1], validTranslations[k])
        /\ Cardinality({j \in 1..Len(allIssues[1].problems) :
                           allIssues[1].problems[j].type = "placeholder_mismatch"}) = 1

\* C4: a completion that does not start with '{' makes validateBatch return no
\* issue and leaves the accumulated list as it is; the batch loop goes on to the
\* next batch; the issues of the technical pass stay in the list.
C4_NotJsonBatchSkipped ==
    /\ [](pc # "load" => TechnicalIssuesKept)
    /\ []((pc \in {"report", "done"} /\ lastError # ModelNotFoundMessage)
            => (index = Len(batches) /\ aiValidationSuccessful))
    /\ [][(pc = "await" /\ lastError' = NotJsonMessage)
            => (pc' = "merge" /\ batchIssues' = <<>> /\ allIssues' = allIssues)]_vars
    /\ [][(pc = "merge" /\ lastError = NotJsonMessage)
            => (pc' = "batch" /\ index' = index /\ allIssues' = allIssues)]_vars

\* the first of two batches got a non-JSON completion, and the file has a technical issue
C4_Witness ==
    /\ pc = "merge"
    /\ lastError = NotJsonMessage
    /\ index < Len(batches)
    /\ technicalIssues # <<>>

\* C5: after a 'model not found' error no further model call starts, AI validation
\* is marked failed, validatePoFile goes to the report stage without throwing, and
\* the issues of the technical pass are in the list.
C5_ModelNotFoundAborts ==
    /\ [](lastError = ModelNotFoundMessage =>
            /\ pc \in {"report", "done"}
            /\ ~aiValidationSuccessful
            /\ outstanding = 0
            /\ TechnicalIssuesKept)
    /\ [][lastError = ModelNotFoundMessage
            => (index' = index /\ allIssues' = allIssues /\ pc' = "done")]_vars

\* the first of two batches failed with 'model not found' and the call returned
C5_Witness ==
    /\ pc = "done"
    /\ lastError = ModelNotFoundMessage
    /\ index < Len(batches)
    /\ technicalIssues # <<>>

\* C6: when validateBatch catches an error that is not 'model not found', it
\* returns an empty issue list.
C6_SoftErrorReturnsNothing ==
    [][(pc = "await" /\ pc' = "merge" /\ lastError' # NoError) => batchIssues' = <<>>]_vars

\* C7: a merge step extends one issue with the same msgid and msgstr (problems
\* appended, suggestedFix replaced unless generic) and leaves the length and every
\* other issue alone, or, when there is none, appends the batch issue.
C7_MergeStep ==
    [][(pc = "merge" /\ batchIssues # <<>>) =>
          LET batchIssue == Head(batchIssues) IN
          IF \E k \in 1..Len(allIssues) : sameEntry(allIssues[k], batchIssue)
          THEN /\ Len(allIssues') = Len(allIssues)
               /\ \E k \in 1..Len(allIssues) :
                     /\ sameEntry(allIssues[k], batchIssue)
                     /\ allIssues'[k].msgid = allIssues[k].msgid
                     /\ allIssues'[k].msgstr = allIssues[k].msgstr
                     /\ allIssues'[k].problems = allIssues[k].problems \o batchIssue.problems
                     /\ allIssues'[k].suggestedFix =
                            IF batchIssue.suggestedFix = GenericFix
                            THEN allIssues[k].suggestedFix
                            ELSE batchIssue.suggestedFix
                     /\ \A j \in 1..Len(allIssues) : j # k => allIssues'[j] = allIssues[j]
          ELSE allIssues' = Append(allIssues, batchIssue)]_vars

\* both branches were taken: an issue was appended and an issue was extended
C7_Witness ==
    /\ Len(allIssues) >= 2
    /\ \E k \in 1..Len(allIssues) :
          /\ Len(allIssues[k].problems) >= 2
          /\ allIssues[k].suggestedFix = AiFix

\* C8: for batchSize >= 1 the batches are ceil(n / batchSize) contiguous slices of
\* the kept entries, in order, each of at most batchSize entries; the model is
\* called for them one after the other, each call starting when no call is
\* outstanding and the previous batch's issues are merged.
C8_BatchesInOrder ==
    /\ []((batchSize >= 1 /\ pc \in {"batch", "await", "merge", "report", "done"}) =>
            /\ Len(batches) = (Len(validTranslations) + batchSize - 1) \div batchSize
            /\ \A k \in 1..Len(batches) : Len(batches[k]) \in 1..batchSize
            /\ concat(batches) = validTranslations)
    /\ [](outstanding \in {0, 1})
    /\ [](index <= Len(batches))
    /\ [][index' # index =>
            /\ index' = index + 1
            /\ outstanding = 0
            /\ batchIssues = <<>>]_vars

\* two batches of one entry each were sent and the call returned
C8_Witness ==
    /\ pc = "done"
    /\ batchSize = 1
    /\ Len(batches) = 2
    /\ index = 2

\* C9: the accumulated list never holds two issues with the same msgid and msgstr.
C9_OneIssuePerEntry ==
    \A j, k \in 1..Len(allIssues) : j # k => ~sameEntry(allIssues[j], allIssues[k])

\* C10: once the file is loaded, validatePoFile reaches the report stage and returns.
C10_Returns == (pc = "partition") ~> (pc = "done")

====
